---- MODULE Spec2Model ----
(* SWORDXplorer: a Streamlit script.  Every UI event re-runs the script     *)
(* top to bottom: upload processing (lines 89-107), then, when the Process  *)
(* Data button was clicked, the pre-run checks and the sequential fetch     *)
(* loop (lines 145-218).  Session state (geo_df, upload_key) and the        *)
(* filesystem survive between re-runs; everything else is local to a run.   *)
(* Filesystem writes into the output directory are taken to succeed.        *)
(* Spec follows the fetch pipeline in sessions fed readable file sets;      *)
(* SessionSpec follows the upload block and the pre-run checks over every   *)
(* file set and every behaviour of the temp dir; PureSpec applies the       *)
(* filter and the sanitizer to inputs of their own.                         *)
EXTENDS Integers, Sequences, FiniteSets, TLC

\* ---------------------------------------------------------------- bounds
MaxBodyRows == 2      \* data rows in one CSV payload
MaxRuns == 1          \* Process Data runs that enter the fetch loop
MaxRows == 3          \* rows of a dataset handed to the filter on its own
MaxLen == 3           \* characters of a value handed to the sanitizer on its own

\* ---------------------------------------------------- uploaded file sets
File(stem, ext, size, content) ==
    [stem |-> stem, ext |-> ext, size |-> size, content |-> content]

\* one attribute-table row of a shapefile: reach_id (possibly null), river_name
Cell(s) == [null |-> FALSE, v |-> s]
NullCell == [null |-> TRUE, v |-> << >>]
Row(rid, river) == [reach_id |-> rid, river_name |-> river]

\* reach_id is a whole number, river_name a text
DatasetA ==
    << Row(Cell(1),  Cell(<<"A","B">>)),
       Row(Cell(1),  Cell(<<"A","B">>)),
       Row(NullCell, Cell(<<"A","/","B">>)),
       Row(Cell(12), Cell(<<"A","/","B">>)),
       Row(NullCell, Cell(<<"Y">>)) >>

\* no row has a river name
DatasetB ==
    << Row(Cell(3), NullCell) >>

\* content of a geometry file: a dataset gpd.read_file returns, or a file it
\* cannot parse
Good(rows) == [parses |-> TRUE, rows |-> rows]
Corrupt == [parses |-> FALSE, rows |-> << >>]

Uploads ==
    { << >>,                                                     \* nothing uploaded
      << File("a", "shp", 10, Good(DatasetA)), File("a", "dbf", 5, Corrupt) >>,
      << File("a", "shp", 10, Good(DatasetB)), File("a", "dbf", 5, Corrupt) >>,
      << File("c", "shp", 3, Good(DatasetB)) >>,
      << File("a", "dbf", 5, Corrupt) >>,                        \* no .shp
      << File("b", "shp", 7, Corrupt) >> }                       \* unreadable .shp

\* the file sets gpd.read_file accepts, and the empty uploader
GoodUploads ==
    { files \in Uploads :
        \A k \in 1..Len(files) : files[k].ext = "shp" => files[k].content.parses }
    \ { << File("a", "dbf", 5, Corrupt) >> }

\* ------------------------------------------------------ session state
NoKey == [set |-> FALSE, key |-> << >>]
NoDataset == [loaded |-> FALSE, rows |-> << >>]

\* line 90: tuple((f.name, f.size) for f in sword_file)
current_key(files) ==
    [set |-> TRUE,
     key |-> [k \in 1..Len(files) |-> <<files[k].stem, files[k].ext, files[k].size>>]]

\* line 96: the .shp files among the uploaded ones
shp_files(files) == SelectSeq(files, LAMBDA f : f.ext = "shp")

\* lines 89-107 without the test of line 91: every re-run reloads
UploadProcessing_AlwaysReloads(files, geo, key) ==
    LET quiet == [geo_df |-> geo, upload_key |-> key, attempted |-> FALSE,
                  parsed |-> FALSE, ok |-> FALSE, message |-> "no_upload"]
    IN  IF files = << >> THEN quiet
        ELSE IF shp_files(files) = << >>
             THEN [quiet EXCEPT !.attempted = TRUE, !.message = "no_shp"]
        ELSE LET shp == shp_files(files)[1].content
             IN  IF shp.parses
                 THEN [geo_df |-> [loaded |-> TRUE, rows |-> shp.rows],
                       upload_key |-> current_key(files),
                       attempted |-> TRUE, parsed |-> TRUE, ok |-> TRUE,
                       message |-> "loaded"]
                 ELSE [quiet EXCEPT !.attempted = TRUE, !.parsed = TRUE,
                                    !.message = "load_error"]

\* lines 89-107 with the dataset dropped when read_file raises
UploadProcessing_ClearsOnError(files, geo, key) ==
    LET quiet == [geo_df |-> geo, upload_key |-> key, attempted |-> FALSE,
                  parsed |-> FALSE, ok |-> FALSE, message |-> "no_upload"]
    IN  IF files = << >> THEN quiet
        ELSE IF current_key(files) = key THEN [quiet EXCEPT !.message = "same_key"]
        ELSE IF shp_files(files) = << >>
             THEN [quiet EXCEPT !.attempted = TRUE, !.message = "no_shp"]
        ELSE LET shp == shp_files(files)[1].content
             IN  IF shp.parses
                 THEN [geo_df |-> [loaded |-> TRUE, rows |-> shp.rows],
                       upload_key |-> current_key(files),
                       attempted |-> TRUE, parsed |-> TRUE, ok |-> TRUE,
                       message |-> "loaded"]
                 ELSE [quiet EXCEPT !.geo_df = [loaded |-> FALSE, rows |-> << >>],
                                    !.attempted = TRUE, !.parsed = TRUE,
                                    !.message = "load_error"]

\* lines 89-107 with line 102 moved out of the try: the identity is stored
\* whether or not read_file returned
UploadProcessing_KeysOnError(files, geo, key) ==
    LET quiet == [geo_df |-> geo, upload_key |-> key, attempted |-> FALSE,
                  parsed |-> FALSE, ok |-> FALSE, message |-> "no_upload"]
    IN  IF files = << >> THEN quiet
        ELSE IF current_key(files) = key THEN [quiet EXCEPT !.message = "same_key"]
        ELSE IF shp_files(files) = << >>
             THEN [quiet EXCEPT !.attempted = TRUE, !.message = "no_shp"]
        ELSE LET shp == shp_files(files)[1].content
             IN  IF shp.parses
                 THEN [geo_df |-> [loaded |-> TRUE, rows |-> shp.rows],
                       upload_key |-> current_key(files),
                       attempted |-> TRUE, parsed |-> TRUE, ok |-> TRUE,
                       message |-> "loaded"]
                 ELSE [quiet EXCEPT !.upload_key = current_key(files),
                                    !.attempted = TRUE, !.parsed = TRUE,
                                    !.message = "load_error"]

\* lines 89-107: what one pass over the upload block does to the session.
\* attempted: a temp dir was made; parsed: gpd.read_file was called;
\* ok: it returned a dataset; message: the branch taken (st.success and
\* st.error show "loaded", "load_error" and "no_shp"; the other two are silent).
UploadProcessing(files, geo, key) ==
    LET quiet == [geo_df |-> geo, upload_key |-> key, attempted |-> FALSE,
                  parsed |-> FALSE, ok |-> FALSE, message |-> "no_upload"]
    IN  IF files = << >> THEN quiet
        ELSE IF current_key(files) = key THEN [quiet EXCEPT !.message = "same_key"]
        ELSE IF shp_files(files) = << >>
             THEN [quiet EXCEPT !.attempted = TRUE, !.message = "no_shp"]
        ELSE LET shp == shp_files(files)[1].content
             IN  IF shp.parses
                 THEN [geo_df |-> [loaded |-> TRUE, rows |-> shp.rows],
                       upload_key |-> current_key(files),
                       attempted |-> TRUE, parsed |-> TRUE, ok |-> TRUE,
                       message |-> "loaded"]
                 ELSE [quiet EXCEPT !.attempted = TRUE, !.parsed = TRUE,
                                    !.message = "load_error"]

\* line 15: range(3)
RmtreeTries == 3

\* what the filesystem does during one load attempt: whether the uploaded
\* blobs can be written (lines 93-95), and how many shutil.rmtree calls fail
\* before one would work (a file of the temp dir still held open)
Calm == [write_ok |-> TRUE, busy |-> 0]
Environments ==
    { [write_ok |-> TRUE, busy |-> b] : b \in 0..RmtreeTries }
    \cup { [write_ok |-> FALSE, busy |-> 0] }

\* a re-run that makes no temp dir does not touch the filesystem
EnvironmentsOf(attempted) == IF attempted THEN Environments ELSE {Calm}

\* lines 15-20: the outcomes of the shutil.rmtree calls made from the k-th on
RECURSIVE rmtree_calls(_, _)
rmtree_calls(busy, k) ==
    IF k > RmtreeTries THEN << >>
    ELSE IF k > busy THEN <<TRUE>>
    ELSE <<FALSE>> \o rmtree_calls(busy, k + 1)

\* lines 13-21: the calls made and the value returned
robust_rmtree(busy) ==
    LET calls == rmtree_calls(busy, 1)
    IN  [calls |-> calls, returned |-> calls[Len(calls)]]

\* the temp dir of a re-run: whether line 92 made one, whether line 107 was
\* reached, and the shutil.rmtree calls made on it
NoTempDir == [made |-> FALSE, cleanup |-> FALSE, calls |-> << >>]

\* ------------------------------------------------------------- filtering
\* line 113: the columns offered for filtering in this model
Columns == {"river_name"}

\* line 114: geo_df[filter_column].dropna().unique().tolist()
distinct_vals(rows, col) ==
    { rows[k][col].v : k \in { j \in 1..Len(rows) : ~rows[j][col].null } }

\* lines 115-119: the value the second select box returns; None when the
\* column has no values (None and "" both fail the test of line 145)
filter_values(rows, col) ==
    IF distinct_vals(rows, col) = {} THEN {<< >>} ELSE distinct_vals(rows, col)

Digits == {"0", "1", "2", "3", "4", "5", "6", "7", "8", "9"}
DigitChar(d) ==
    CASE d = 0 -> "0" [] d = 1 -> "1" [] d = 2 -> "2" [] d = 3 -> "3" [] d = 4 -> "4"
      [] d = 5 -> "5" [] d = 6 -> "6" [] d = 7 -> "7" [] d = 8 -> "8" [] d = 9 -> "9"

\* line 148: astype(str) on a whole number; on None it gives the text "None"
RECURSIVE str_of(_)
str_of(cell) ==
    IF cell.null THEN <<"N", "o", "n", "e">>
    ELSE IF cell.v < 10 THEN <<DigitChar(cell.v)>>
    ELSE str_of(Cell(cell.v \div 10)) \o <<DigitChar(cell.v % 10)>>

\* lines 147-148 without dropna()
RECURSIVE reach_ids_of_KeepsNull(_, _, _)
reach_ids_of_KeepsNull(rows, col, val) ==
    IF rows = << >> THEN << >>
    ELSE LET r == Head(rows)
             rest == reach_ids_of_KeepsNull(Tail(rows), col, val)
         IN  IF ~r[col].null /\ r[col].v = val
             THEN <<str_of(r.reach_id)>> \o rest
             ELSE rest

\* lines 147-148: rows whose filter column equals the value, then
\* ['reach_id'].dropna().astype(str).tolist()
RECURSIVE reach_ids_of(_, _, _)
reach_ids_of(rows, col, val) ==
    IF rows = << >> THEN << >>
    ELSE LET r == Head(rows)
             rest == reach_ids_of(Tail(rows), col, val)
         IN  IF ~r[col].null /\ r[col].v = val /\ ~r.reach_id.null
             THEN <<str_of(r.reach_id)>> \o rest
             ELSE rest

\* line 154: c.isalnum() or c in " _-"
Alnum == {"A", "B", "X", "Y", "1", "2", "3"}
Allowed(c) == c \in Alnum \/ c \in {" ", "_", "-"}

\* line 154 with every other character replaced by "_" instead of dropped
safe_val_of_Replaces(value) ==
    [k \in 1..Len(value) |-> IF Allowed(value[k]) THEN value[k] ELSE "_"]

\* line 154: "".join(c for c in filter_value if ...)
safe_val_of(value) == SelectSeq(value, Allowed)

\* line 155: f"swot_{safe_val}_output"
OUTPUT_DIR_of(safe_val) == <<"swot_">> \o safe_val \o <<"_output">>

\* every directory a run of this model can use
Dirs == { safe_val_of(v) : v \in UNION { distinct_vals(d, c) : d \in {DatasetA, DatasetB}, c \in Columns } }

\* line 135 / 138: the selected API fields, as the multiselect returns them
FieldChoices == { << >>, <<"reach_id", "time_str", "wse", "width">> }

\* ------------------------------------------------------------- responses
\* Retry-After header: absent, or the text the server sent
NoHeader == [present |-> FALSE, text |-> << >>]
Header(t) == [present |-> TRUE, text |-> t]
Headers == { NoHeader, Header(<<"3">>), Header(<<"-", "3">>), Header(<<"x">>) }

DigitVal(c) ==
    CASE c = "0" -> 0 [] c = "1" -> 1 [] c = "2" -> 2 [] c = "3" -> 3
      [] c = "4" -> 4 [] c = "5" -> 5 [] c = "6" -> 6 [] c = "7" -> 7
      [] c = "8" -> 8 [] c = "9" -> 9

RECURSIVE DigitsVal(_, _)
DigitsVal(t, acc) ==
    IF t = << >> THEN acc ELSE DigitsVal(Tail(t), 10 * acc + DigitVal(Head(t)))

\* Python int(str): an optional sign and at least one digit, else ValueError
PyInt(t) ==
    LET signed == t # << >> /\ Head(t) \in {"-", "+"}
        body == IF signed THEN Tail(t) ELSE t
        wellformed == body # << >> /\ \A k \in 1..Len(body) : body[k] \in Digits
    IN  IF ~wellformed THEN [raises |-> TRUE, val |-> 0]
        ELSE [raises |-> FALSE,
              val |-> IF signed /\ Head(t) = "-" THEN 0 - DigitsVal(body, 0)
                      ELSE DigitsVal(body, 0)]

DefaultRetry == 10

\* line 177: int(resp.headers.get('Retry-After', 10))
retry_of(h) == IF h.present THEN PyInt(h.text) ELSE [raises |-> FALSE, val |-> DefaultRetry]

\* line 179: time.sleep raises ValueError for a negative length
SleepRaises(secs) == secs < 0

\* the JSON body of a response
SeqsUpTo(S, n) == UNION { [1..m -> S] : m \in 0..n }
NoBody == [kind |-> "none", time_col |-> FALSE, rows |-> << >>]
Bodies ==
    { [kind |-> k, time_col |-> FALSE, rows |-> << >>] : k \in {"notjson", "nocsv", "badcsv"} }
    \cup { [kind |-> "csv", time_col |-> TRUE, rows |-> r] : r \in SeqsUpTo({"ok", "bad"}, MaxBodyRows) }
    \cup { [kind |-> "csv", time_col |-> FALSE, rows |-> [k \in 1..MaxBodyRows |-> "any"]] }

Response(s, h, b) == [raised |-> FALSE, status |-> s, retry_after |-> h, body |-> b]
\* requests.get raised (timeout, connection failure)
TransportError == [raised |-> TRUE, status |-> 0, retry_after |-> NoHeader, body |-> NoBody]

Replies ==
    { TransportError }
    \cup { Response(429, h, NoBody) : h \in Headers }
    \cup { Response(s, NoHeader, NoBody) : s \in {400, 500} }
    \cup { Response(200, NoHeader, b) : b \in Bodies }

\* line 188: resp.raise_for_status()
raise_for_status(status) == status >= 400 /\ status < 600

\* lines 192-195: the table read from the payload, as the source-row numbers
\* that survive dropna(subset=['time_str'])
RECURSIVE kept(_, _)
kept(rows, k) ==
    IF k > Len(rows) THEN << >>
    ELSE IF rows[k] = "bad" THEN kept(rows, k + 1)
    ELSE <<k>> \o kept(rows, k + 1)

table_of(body) ==
    IF body.time_col THEN kept(body.rows, 1) ELSE [k \in 1..Len(body.rows) |-> k]

\* line 208: pd.concat(results, ignore_index=True), rows tagged with the
\* position of their reach in the run
RECURSIVE concat(_)
concat(tables) ==
    IF tables = << >> THEN << >>
    ELSE [k \in 1..Len(Head(tables).rows) |-> <<Head(tables).occ, Head(tables).rows[k]>>]
         \o concat(Tail(tables))

\* ------------------------------------------------------------------ state
VARIABLES
    geo_df,         \* st.session_state.geo_df
    upload_key,     \* st.session_state.upload_key
    parsed,         \* the latest re-run called gpd.read_file
    loaded_key,     \* identity of the file set of the latest load that succeeded
    attempt_key,    \* identity of the file set of the latest load attempt
    notice,         \* what the upload block of the latest re-run did (lines 89-107)
    temp_dir,       \* the temp dir of the latest re-run
    prerun,         \* how far the Process Data handler of the latest re-run got
    loaded_from,    \* the file set geo_df was read from
    pc,             \* position of the script
    runs,           \* runs that entered the fetch loop
    reach_ids,      \* line 148
    out_dir,        \* safe_val, which names OUTPUT_DIR
    i,              \* loop index of line 164 (0-based)
    results,        \* line 159
    errors,         \* line 160
    replies,        \* what the requests of the current reach returned, in order
    backoff,        \* seconds slept at line 179 for the current reach, -1 if none
    outcome,        \* how the current reach ended
    mark,           \* errors, results and log as they were when the reach began
    throttles,      \* executions of line 205 in this run
    progress,       \* latest pbar / status update: <<position, total>>
    surfaced,       \* st.warning / st.error calls inside the loop in this run
    report,         \* what lines 207-218 told the user
    combined,       \* the table written at line 210
    logs,           \* logger.txt of every output directory
    made_dirs,      \* output directories created at line 156
    reach_files,    \* reach_<rid>.csv files on disk, as <<dir, rid>>
    combined_files, \* directories holding a combined_<safe_val>.csv
    probe,          \* the input handed to the filter or to the sanitizer on its own
    answer          \* what it returned

session == <<geo_df, upload_key, parsed, loaded_key, attempt_key, notice, temp_dir,
             prerun, loaded_from>>
disk == <<logs, made_dirs, reach_files, combined_files>>
run == <<runs, reach_ids, out_dir, i, results, errors, replies, backoff, outcome, mark,
         throttles, progress, surfaced, report, combined>>
pure == <<probe, answer>>
vars == <<session, disk, run, pc, pure>>

\* what the end of a run shows: the message, whether it carries the counts
\* (and which), whether the combined file was written and offered
NoReport == [kind |-> "none", tally |-> FALSE, processed |-> 0, errors |-> 0,
             wrote |-> FALSE, download |-> FALSE]
NoMark == [errors |-> 0, results |-> << >>, log |-> << >>, files |-> {}]

\* a line an earlier session left in a log
OldLine == <<"9">>

\* the output directories before the session: none, or those of an earlier
\* session, each with a log of one line
Disks ==
    { [logs |-> [d \in Dirs |-> << >>], made_dirs |-> {}],
      [logs |-> [d \in Dirs |-> <<OldLine>>], made_dirs |-> Dirs] }

NoProbe == [kind |-> "none"]
NoAnswer == [stage |-> "none"]

\* lines 70-75 and the locals of a script that has not run yet
Start(d) ==
    /\ geo_df = NoDataset
    /\ upload_key = NoKey
    /\ parsed = FALSE
    /\ loaded_key = NoKey
    /\ attempt_key = NoKey
    /\ notice = "none"
    /\ temp_dir = NoTempDir
    /\ prerun = "none"
    /\ loaded_from = << >>
    /\ pc = "idle"
    /\ runs = 0
    /\ reach_ids = << >>
    /\ out_dir = << >>
    /\ i = 0
    /\ results = << >>
    /\ errors = 0
    /\ replies = << >>
    /\ backoff = -1
    /\ outcome = "none"
    /\ mark = NoMark
    /\ throttles = 0
    /\ progress = <<0, 0>>
    /\ surfaced = 0
    /\ report = NoReport
    /\ combined = << >>
    /\ logs = d.logs
    /\ made_dirs = d.made_dirs
    /\ reach_files = {}
    /\ combined_files = {}

Init ==
    /\ \E d \in Disks : Start(d)
    /\ probe = NoProbe
    /\ answer = NoAnswer

\* the script is not inside the fetch loop: the next UI event re-runs it
AtRest == pc \in {"idle", "finished"}

\* a re-run starts with fresh local variables and a cleared page
FreshRun ==
    /\ reach_ids' = << >>
    /\ out_dir' = << >>
    /\ i' = 0
    /\ results' = << >>
    /\ errors' = 0
    /\ replies' = << >>
    /\ backoff' = -1
    /\ outcome' = "none"
    /\ mark' = NoMark
    /\ throttles' = 0
    /\ progress' = <<0, 0>>
    /\ surfaced' = 0
    /\ report' = NoReport
    /\ combined' = << >>

\* lines 92-95 raise: the exception ends the re-run before line 96
Crashes(u, env) == u.attempted /\ ~env.write_ok

\* lines 89-107 applied to the session variables
Upload(files, u, env) ==
    IF Crashes(u, env)
    THEN /\ temp_dir' = [made |-> TRUE, cleanup |-> FALSE, calls |-> << >>]
         /\ attempt_key' = current_key(files)
         /\ parsed' = FALSE
         /\ notice' = "exception"
         /\ UNCHANGED <<geo_df, upload_key, loaded_key, loaded_from>>
    ELSE /\ geo_df' = u.geo_df
         /\ upload_key' = u.upload_key
         /\ parsed' = u.parsed
         /\ loaded_key' = IF u.ok THEN current_key(files) ELSE loaded_key
         /\ attempt_key' = IF u.attempted THEN current_key(files) ELSE attempt_key
         /\ loaded_from' = IF u.ok THEN files ELSE loaded_from
         /\ notice' = u.message
         /\ temp_dir' = IF u.attempted
                        THEN [made |-> TRUE, cleanup |-> TRUE,
                              calls |-> robust_rmtree(env.busy).calls]
                        ELSE NoTempDir

\* a re-run in which Process Data was not clicked (any other UI event)
Refresh(files, env) ==
    LET u == UploadProcessing(files, geo_df, upload_key)
    IN  /\ AtRest
        /\ Upload(files, u, env)
        /\ prerun' = "none"
        /\ pc' = "idle"
        /\ FreshRun
        /\ UNCHANGED <<pure, runs, disk>>

\* lines 145-162 with lines 154-156 moved before the test of line 149
ProcessData_MakesDirFirst(files, env, col, val, fields) ==
    LET u == UploadProcessing(files, geo_df, upload_key)
        ids == reach_ids_of(u.geo_df.rows, col, val)
    IN  /\ AtRest
        /\ ~Crashes(u, env)
        /\ Upload(files, u, env)
        /\ u.geo_df.loaded
        /\ val \in filter_values(u.geo_df.rows, col)
        /\ IF val = << >> \/ fields = << >>
           THEN /\ prerun' = IF val = << >> THEN "no_value" ELSE "no_fields"
                /\ pc' = "idle"
                /\ FreshRun
                /\ UNCHANGED <<pure, runs, disk>>
           ELSE IF ids = << >>
           THEN /\ prerun' = "no_reach_ids"
                /\ made_dirs' = made_dirs \cup {safe_val_of(val)}
                /\ pc' = "idle"
                /\ FreshRun
                /\ UNCHANGED <<pure, runs, logs, reach_files, combined_files>>
           ELSE /\ runs < MaxRuns
                /\ runs' = runs + 1
                /\ prerun' = "processing"
                /\ reach_ids' = ids
                /\ out_dir' = safe_val_of(val)
                /\ made_dirs' = made_dirs \cup {safe_val_of(val)}
                /\ i' = 0
                /\ results' = << >>
                /\ errors' = 0
                /\ replies' = << >>
                /\ backoff' = -1
                /\ outcome' = "none"
                /\ mark' = NoMark
                /\ throttles' = 0
                /\ progress' = <<0, 0>>
                /\ surfaced' = 0
                /\ report' = NoReport
                /\ combined' = << >>
                /\ pc' = "loop_top"
                /\ UNCHANGED <<pure, logs, reach_files, combined_files>>

\* lines 145-162: a re-run in which Process Data was clicked
ProcessData(files, env, col, val, fields) ==
    LET u == UploadProcessing(files, geo_df, upload_key)
        ids == reach_ids_of(u.geo_df.rows, col, val)
    IN  /\ AtRest
        /\ ~Crashes(u, env)
        /\ Upload(files, u, env)
        /\ u.geo_df.loaded
        /\ val \in filter_values(u.geo_df.rows, col)
        /\ IF val = << >> \/ fields = << >>
           THEN /\ prerun' = IF val = << >> THEN "no_value" ELSE "no_fields"
                /\ pc' = "idle"
                /\ FreshRun
                /\ UNCHANGED <<pure, runs, disk>>
           ELSE IF ids = << >>
           THEN /\ prerun' = "no_reach_ids"
                /\ pc' = "idle"
                /\ FreshRun
                /\ UNCHANGED <<pure, runs, disk>>
           ELSE /\ runs < MaxRuns
                /\ runs' = runs + 1
                /\ prerun' = "processing"
                /\ reach_ids' = ids
                /\ out_dir' = safe_val_of(val)
                /\ made_dirs' = made_dirs \cup {safe_val_of(val)}
                /\ i' = 0
                /\ results' = << >>
                /\ errors' = 0
                /\ replies' = << >>
                /\ backoff' = -1
                /\ outcome' = "none"
                /\ mark' = NoMark
                /\ throttles' = 0
                /\ progress' = <<0, 0>>
                /\ surfaced' = 0
                /\ report' = NoReport
                /\ combined' = << >>
                /\ pc' = "loop_top"
                /\ UNCHANGED <<pure, logs, reach_files, combined_files>>

rid == reach_ids[i + 1]
resp == replies[Len(replies)]

\* lines 164-173: progress update, status line, url
LoopTop ==
    /\ pc = "loop_top"
    /\ progress' = <<i + 1, Len(reach_ids)>>
    /\ replies' = << >>
    /\ backoff' = -1
    /\ outcome' = "none"
    /\ mark' = [errors |-> errors, results |-> results, log |-> logs[out_dir],
                files |-> reach_files]
    /\ pc' = "request"
    /\ UNCHANGED <<pure, session, disk, runs, reach_ids, out_dir, i, results, errors,
                   throttles, surfaced, report, combined>>

\* lines 175-176: the first request of a reach
Request(r) ==
    /\ pc = "request"
    /\ replies' = Append(replies, r)
    /\ pc' = IF r.raised THEN "except"
             ELSE IF r.status = 429 THEN "rate_limited" ELSE "classify"
    /\ UNCHANGED <<pure, mark, session, disk, runs, reach_ids, out_dir, i, results, errors,
                   backoff, outcome, throttles, progress, surfaced, report, combined>>

\* lines 177-179: read Retry-After and sleep
RateLimited ==
    LET retry == retry_of(resp.retry_after)
        fails == retry.raises \/ SleepRaises(retry.val)
    IN  /\ pc = "rate_limited"
        /\ backoff' = IF fails THEN backoff ELSE retry.val
        /\ pc' = IF fails THEN "except" ELSE "retry"
        /\ UNCHANGED <<pure, mark, session, disk, runs, reach_ids, out_dir, i, results, errors,
                       replies, outcome, throttles, progress, surfaced, report, combined>>

\* line 180: the one retry
Retry(r) ==
    /\ pc = "retry"
    /\ replies' = Append(replies, r)
    /\ pc' = IF r.raised THEN "except" ELSE "classify"
    /\ UNCHANGED <<pure, mark, session, disk, runs, reach_ids, out_dir, i, results, errors,
                   backoff, outcome, throttles, progress, surfaced, report, combined>>

\* lines 181-187 with line 186 left out
NotFound_Uncounted ==
    /\ pc = "classify"
    /\ resp.status = 400
    /\ logs' = [logs EXCEPT ![out_dir] = Append(@, rid)]
    /\ surfaced' = surfaced + 1
    /\ outcome' = "NOT_FOUND"
    /\ pc' = "finally"
    /\ UNCHANGED <<pure, mark, session, made_dirs, reach_files, combined_files, runs, reach_ids,
                   out_dir, i, results, errors, replies, backoff, throttles, progress,
                   report, combined>>

\* lines 181-187 with a continue that leaves the loop body before line 205
NotFound_SkipsThrottle ==
    /\ pc = "classify"
    /\ resp.status = 400
    /\ logs' = [logs EXCEPT ![out_dir] = Append(@, rid)]
    /\ errors' = errors + 1
    /\ surfaced' = surfaced + 1
    /\ i' = i + 1
    /\ pc' = IF i + 1 < Len(reach_ids) THEN "loop_top" ELSE "present"
    /\ replies' = << >>
    /\ backoff' = -1
    /\ outcome' = "none"
    /\ mark' = NoMark
    /\ UNCHANGED <<pure, session, made_dirs, reach_files, combined_files, runs, reach_ids,
                   out_dir, results, throttles, progress, report, combined>>

\* lines 181-187 with the log opened in mode "w"
NotFound_Truncates ==
    /\ pc = "classify"
    /\ resp.status = 400
    /\ logs' = [logs EXCEPT ![out_dir] = <<rid>>]
    /\ errors' = errors + 1
    /\ surfaced' = surfaced + 1
    /\ outcome' = "NOT_FOUND"
    /\ pc' = "finally"
    /\ UNCHANGED <<pure, mark, session, made_dirs, reach_files, combined_files, runs, reach_ids,
                   out_dir, i, results, replies, backoff, throttles, progress,
                   report, combined>>

\* lines 181-187: bad request
NotFound ==
    /\ pc = "classify"
    /\ resp.status = 400
    /\ logs' = [logs EXCEPT ![out_dir] = Append(@, rid)]
    /\ errors' = errors + 1
    /\ surfaced' = surfaced + 1
    /\ outcome' = "NOT_FOUND"
    /\ pc' = "finally"
    /\ UNCHANGED <<pure, mark, session, made_dirs, reach_files, combined_files, runs, reach_ids,
                   out_dir, i, results, replies, backoff, throttles, progress,
                   report, combined>>

\* lines 188-190, 192: raise_for_status, resp.json(), data.get, pd.read_csv raise
Raises ==
    /\ pc = "classify"
    /\ resp.status # 400
    /\ \/ raise_for_status(resp.status)
       \/ resp.body.kind \in {"notjson", "badcsv"}
    /\ pc' = "except"
    /\ UNCHANGED <<pure, mark, session, disk, runs, reach_ids, out_dir, i, results, errors,
                   replies, backoff, outcome, throttles, progress, surfaced,
                   report, combined>>

\* lines 198-200 without line 199
EmptyPayload_Uncounted ==
    /\ pc = "classify"
    /\ resp.status # 400
    /\ ~raise_for_status(resp.status)
    /\ resp.body.kind = "nocsv"
    /\ surfaced' = surfaced + 1
    /\ outcome' = "EMPTY"
    /\ pc' = "finally"
    /\ UNCHANGED <<pure, mark, session, disk, runs, reach_ids, out_dir, i, results, errors,
                   replies, backoff, throttles, progress, report, combined>>

\* lines 198-200 with an (empty) per-reach file written all the same
EmptyPayload_WritesFile ==
    /\ pc = "classify"
    /\ resp.status # 400
    /\ ~raise_for_status(resp.status)
    /\ resp.body.kind = "nocsv"
    /\ reach_files' = reach_files \cup {<<out_dir, rid>>}
    /\ errors' = errors + 1
    /\ surfaced' = surfaced + 1
    /\ outcome' = "EMPTY"
    /\ pc' = "finally"
    /\ UNCHANGED <<pure, mark, session, logs, made_dirs, combined_files, runs, reach_ids,
                   out_dir, i, results, replies, backoff, throttles, progress, report,
                   combined>>

\* lines 198-200: no csv text in the body
EmptyPayload ==
    /\ pc = "classify"
    /\ resp.status # 400
    /\ ~raise_for_status(resp.status)
    /\ resp.body.kind = "nocsv"
    /\ errors' = errors + 1
    /\ surfaced' = surfaced + 1
    /\ outcome' = "EMPTY"
    /\ pc' = "finally"
    /\ UNCHANGED <<pure, mark, session, disk, runs, reach_ids, out_dir, i, results,
                   replies, backoff, throttles, progress, report, combined>>

\* lines 191-196: csv text parsed, rows dropped, per-reach file written
WriteFile ==
    /\ pc = "classify"
    /\ resp.status # 400
    /\ ~raise_for_status(resp.status)
    /\ resp.body.kind = "csv"
    /\ reach_files' = reach_files \cup {<<out_dir, rid>>}
    /\ pc' = "written"
    /\ UNCHANGED <<pure, mark, session, logs, made_dirs, combined_files, runs, reach_ids, out_dir,
                   i, results, errors, replies, backoff, outcome, throttles, progress,
                   surfaced, report, combined>>

\* line 197 with results.insert(0, df) for results.append(df)
Success_Prepends ==
    /\ pc = "written"
    /\ results' = <<[rid |-> rid, occ |-> i + 1, rows |-> table_of(resp.body)]>> \o results
    /\ outcome' = "SUCCESS"
    /\ pc' = "finally"
    /\ UNCHANGED <<pure, mark, session, disk, runs, reach_ids, out_dir, i, errors, replies,
                   backoff, throttles, progress, surfaced, report, combined>>

\* line 197: the table joins the accumulator
Success ==
    /\ pc = "written"
    /\ results' = Append(results, [rid |-> rid, occ |-> i + 1, rows |-> table_of(resp.body)])
    /\ outcome' = "SUCCESS"
    /\ pc' = "finally"
    /\ UNCHANGED <<pure, mark, session, disk, runs, reach_ids, out_dir, i, errors, replies,
                   backoff, throttles, progress, surfaced, report, combined>>

\* lines 201-203 re-raising: the exception ends the script inside the loop
Except_Aborts ==
    /\ pc = "except"
    /\ errors' = errors + 1
    /\ surfaced' = surfaced + 1
    /\ outcome' = "FAILED"
    /\ pc' = "finished"
    /\ UNCHANGED <<pure, mark, session, disk, runs, reach_ids, out_dir, i, results,
                   replies, backoff, throttles, progress, report, combined>>

\* lines 201-203
Except ==
    /\ pc = "except"
    /\ errors' = errors + 1
    /\ surfaced' = surfaced + 1
    /\ outcome' = "FAILED"
    /\ pc' = "finally"
    /\ UNCHANGED <<pure, mark, session, disk, runs, reach_ids, out_dir, i, results,
                   replies, backoff, throttles, progress, report, combined>>

\* lines 204-205, then the next iteration or the end of the loop
Finally ==
    /\ pc = "finally"
    /\ throttles' = throttles + 1
    /\ i' = i + 1
    /\ pc' = IF i + 1 < Len(reach_ids) THEN "loop_top" ELSE "present"
    /\ replies' = << >>
    /\ backoff' = -1
    /\ outcome' = "none"
    /\ mark' = NoMark
    /\ UNCHANGED <<pure, session, disk, runs, reach_ids, out_dir, results, errors,
                   progress, surfaced, report, combined>>

\* lines 207-218 without the test of line 207
Present_AlwaysWrites ==
    /\ pc = "present"
    /\ combined' = concat(results)
    /\ combined_files' = combined_files \cup {out_dir}
    /\ report' = [kind |-> "success", tally |-> TRUE, processed |-> Len(results),
                  errors |-> errors, wrote |-> TRUE, download |-> TRUE]
    /\ pc' = "finished"
    /\ UNCHANGED <<pure, mark, session, logs, made_dirs, reach_files, runs, reach_ids, out_dir, i,
                   results, errors, replies, backoff, outcome, throttles, progress,
                   surfaced>>

\* lines 207-218
Present ==
    /\ pc = "present"
    /\ IF results # << >>
       THEN /\ combined' = concat(results)
            /\ combined_files' = combined_files \cup {out_dir}
            /\ report' = [kind |-> "success", tally |-> TRUE, processed |-> Len(results),
                          errors |-> errors, wrote |-> TRUE, download |-> TRUE]
       ELSE /\ combined' = << >>
            /\ combined_files' = combined_files
            /\ report' = [kind |-> "no_data", tally |-> FALSE, processed |-> 0,
                          errors |-> 0, wrote |-> FALSE, download |-> FALSE]
    /\ pc' = "finished"
    /\ UNCHANGED <<pure, mark, session, logs, made_dirs, reach_files, runs, reach_ids, out_dir, i,
                   results, errors, replies, backoff, outcome, throttles, progress,
                   surfaced>>

FetchStep ==
    \/ LoopTop
    \/ \E r \in Replies : Request(r)
    \/ RateLimited
    \/ \E r \in Replies : Retry(r)
    \/ NotFound
    \/ Raises
    \/ EmptyPayload
    \/ WriteFile
    \/ Success
    \/ Except
    \/ Finally
    \/ Present

\* the fetch pipeline, in sessions fed readable file sets on a filesystem
\* that behaves
Next ==
    \/ \E files \in GoodUploads : Refresh(files, Calm)
    \/ \E files \in GoodUploads, col \in Columns, fields \in FieldChoices :
         \E val \in filter_values(UploadProcessing(files, geo_df, upload_key).geo_df.rows, col) :
            ProcessData(files, Calm, col, val, fields)
    \/ FetchStep

Spec == Init /\ [][Next]_vars

\* the session up to the start of a fetch loop, over every file set and
\* every behaviour of the filesystem
SessionNext ==
    \/ \E files \in Uploads :
         \E env \in EnvironmentsOf(UploadProcessing(files, geo_df, upload_key).attempted) :
            Refresh(files, env)
    \/ \E files \in Uploads, col \in Columns, fields \in FieldChoices :
         \E env \in EnvironmentsOf(UploadProcessing(files, geo_df, upload_key).attempted) :
            \E val \in filter_values(UploadProcessing(files, geo_df, upload_key).geo_df.rows, col) :
               ProcessData(files, env, col, val, fields)

SessionSpec == Init /\ [][SessionNext]_vars

\* the script runs to its end once started: nothing else is scheduled
FairSpec == Spec /\ WF_vars(FetchStep)

\* ------------------------------------------- the two pure steps on their own
\* rows a dataset can hold, and the datasets and values the filter is tried on
RowKinds ==
    { Row(r, n) : r \in {NullCell, Cell(1), Cell(12)},
                  n \in {NullCell, Cell(<<"A">>), Cell(<<"B">>)} }
FilterProbes(n) ==
    UNION { { [kind |-> "filter", rows |-> rows, col |-> col, val |-> val] :
                val \in distinct_vals(rows, col) } :
            rows \in SeqsUpTo(RowKinds, n), col \in {"reach_id", "river_name"} }

\* the characters and the values the sanitizer is tried on
Chars == {"A", "1", " ", "_", "-", "/", "."}
SanitizeProbes(n) ==
    { [kind |-> "sanitize", value |-> v] : v \in SeqsUpTo(Chars, n) }

PureInit ==
    /\ Start([logs |-> [d \in Dirs |-> << >>], made_dirs |-> {}])
    /\ probe \in FilterProbes(MaxRows) \cup SanitizeProbes(MaxLen)
    /\ answer = NoAnswer

\* lines 147-148 applied to the probe
Filter ==
    /\ probe.kind = "filter"
    /\ answer.stage = "none"
    /\ answer' = [stage |-> "filtered",
                  reach_ids |-> reach_ids_of(probe.rows, probe.col, probe.val)]
    /\ UNCHANGED <<probe, session, disk, run, pc>>

\* lines 154-155 applied to the probe
Sanitize ==
    /\ probe.kind = "sanitize"
    /\ answer.stage = "none"
    /\ answer' = [stage |-> "once",
                  safe_val |-> safe_val_of(probe.value),
                  again |-> << >>,
                  OUTPUT_DIR |-> OUTPUT_DIR_of(safe_val_of(probe.value))]
    /\ UNCHANGED <<probe, session, disk, run, pc>>

\* line 154 applied to its own result
SanitizeAgain ==
    /\ answer.stage = "once"
    /\ answer' = [answer EXCEPT !.stage = "twice", !.again = safe_val_of(answer.safe_val)]
    /\ UNCHANGED <<probe, session, disk, run, pc>>

PureNext == Filter \/ Sanitize \/ SanitizeAgain

PureSpec == PureInit /\ [][PureNext]_vars

\* ----------------------------------------------------------------- claims
InLoop == pc \in {"loop_top", "request", "rate_limited", "retry", "classify",
                  "written", "except", "finally"}

\* the reach just processed, as the accumulator would hold it
ThisTable == [rid |-> rid, occ |-> i + 1, rows |-> table_of(resp.body)]

\* C1: a first 429 is followed by a sleep and exactly one more request, never
\* a third; any other first reply by no further request; and 429 then 200
\* with csv text appends the reach without counting an error.
C1_RetryExactlyOnce ==
    pc = "finally" =>
        /\ Len(replies) \in {1, 2}
        /\ (~replies[1].raised /\ replies[1].status = 429)
              => (Len(replies) = 2 /\ backoff >= 0)
        /\ (replies[1].raised \/ replies[1].status # 429) => Len(replies) = 1
        /\ (Len(replies) = 2 /\ resp.status = 200 /\ resp.body.kind = "csv")
              => (results = Append(mark.results, ThisTable) /\ errors = mark.errors)

\* C2: a reach whose final reply is a 400 adds exactly one log line holding
\* its identifier, adds one to the error counter, appends no table, and the
\* loop goes on.
C2_NotFoundLogged ==
    (pc = "finally" /\ ~resp.raised /\ resp.status = 400) =>
        /\ logs[out_dir] = Append(mark.log, rid)
        /\ errors = mark.errors + 1
        /\ results = mark.results
        /\ \A k \in 1..Len(results) : results[k].occ # i + 1
        /\ outcome = "NOT_FOUND"

C2_Witness ==
    /\ pc = "finally"
    /\ Len(replies) = 2
    /\ resp.status = 400
    /\ i = 1

\* C3: every reach, whatever its outcome, is followed by exactly one throttle
\* sleep before the next reach's first request: while reach i+1 is in work
\* i sleeps have happened, and after the loop as many as there are reaches.
C3_ThrottleEveryReach ==
    /\ InLoop => (throttles = i /\ i < Len(reach_ids))
    /\ pc \in {"present", "finished"} => (throttles = Len(reach_ids) /\ i = Len(reach_ids))

C3_Witness ==
    /\ pc = "request"
    /\ i = 1
    /\ throttles = 1
    /\ logs[out_dir] # << >>
    /\ errors = 1

\* C4: no reply or exception ends the run inside the loop: the index only
\* moves one reach forward, from the end of that reach's processing, and a
\* run that entered the loop reaches the end with every occurrence processed.
C4_RunCompletes ==
    /\ [][i' # i => ((pc = "finally" /\ i' = i + 1) \/ (AtRest /\ i' = 0))]_vars
    /\ [][(InLoop /\ ~InLoop') => (pc = "finally" /\ i' = Len(reach_ids))]_vars
    /\ (pc = "loop_top" /\ i = 0) ~> (pc = "finished" /\ i = Len(reach_ids))

C4_Witness ==
    /\ pc = "finished"
    /\ i = 2
    /\ reach_ids[1] = reach_ids[2]
    /\ errors = 2
    /\ logs[out_dir] = << >>

\* C5: every reach that did not succeed is in the error counter, and the end
\* of every run shows that counter, also when no reach succeeded.
C5_TallyReported ==
    pc = "finished" =>
        /\ errors = i - Len(results)
        /\ report.tally
        /\ report.errors = errors

RECURSIVE RowCount(_)
RowCount(tables) ==
    IF tables = << >> THEN 0 ELSE Len(Head(tables).rows) + RowCount(Tail(tables))

\* C6: the combined table has as many rows as the accumulated tables
\* together, holds each of their rows, rows of an earlier reach before rows
\* of a later one and each table's rows in their own order.
C6_Concatenation ==
    report.wrote =>
        /\ Len(combined) = RowCount(results)
        /\ \A k \in 1..Len(results) : \A r \in 1..Len(results[k].rows) :
              \E p \in 1..Len(combined) : combined[p] = <<results[k].occ, results[k].rows[r]>>
        /\ \A p, q \in 1..Len(combined) :
              p < q => \/ combined[p][1] < combined[q][1]
                       \/ /\ combined[p][1] = combined[q][1]
                          /\ combined[p][2] < combined[q][2]

C6_Witness ==
    /\ report.wrote
    /\ Len(results) = 2
    /\ Len(results[1].rows) = 2
    /\ Len(results[2].rows) >= 1
    /\ errors = 0

\* C7: on a 429 whose Retry-After is absent or not a number the wait is the
\* default, and the one retry is still made.
C7_DefaultWait ==
    (/\ pc = "finally"
     /\ ~replies[1].raised
     /\ replies[1].status = 429
     /\ (~replies[1].retry_after.present \/ PyInt(replies[1].retry_after.text).raises))
        => (backoff = DefaultRetry /\ Len(replies) = 2)

\* C8: every accumulated table comes from a successful reply with csv text
\* and holds at least one row after the rows without a time were dropped.
C8_OnlyRowsCount ==
    /\ (pc = "finally" /\ outcome = "SUCCESS")
          => (resp.status = 200 /\ resp.body.kind = "csv")
    /\ \A k \in 1..Len(results) : Len(results[k].rows) >= 1

\* C9: a run without a successful reach writes no combined file, offers no
\* download and says that no data was retrieved; the combined file is written
\* only from a non-empty accumulator.
C9_NoDataNoFile ==
    /\ []((pc = "finished" /\ results = << >>)
            => (report.kind = "no_data" /\ ~report.wrote /\ ~report.download))
    /\ [](report.wrote => Len(results) >= 1)
    /\ [](report.download => report.wrote)
    /\ [][combined_files' # combined_files => (pc = "present" /\ Len(results) >= 1)]_vars

C9_Witness ==
    /\ pc = "finished"
    /\ i = 2
    /\ results = << >>
    /\ report.kind = "no_data"
    /\ combined_files = {}

\* C10 as stated: gpd.read_file runs only when the identity of the uploaded
\* file set differs from the identity of the previous load attempt.
C10_ParseOnlyOnNewIdentity ==
    [][(AtRest /\ parsed') => attempt_key' # attempt_key]_vars

\* C10 amended: gpd.read_file runs only when the identity of the uploaded
\* file set differs from the identity of the latest load that succeeded, and
\* the dataset changes only when it runs.
C10_ParseOnlyOnNewLoadedIdentity ==
    /\ [][(AtRest /\ parsed') => attempt_key' # loaded_key]_vars
    /\ [][geo_df' # geo_df => (AtRest /\ parsed')]_vars

C10_Witness ==
    /\ notice = "same_key"
    /\ geo_df.loaded
    /\ attempt_key = loaded_key
    /\ ~parsed

\* C11: a load that finds no .shp file or whose read_file raises reports the
\* error and leaves the session dataset as it was, None or the earlier one.
C11_FailedLoadKeepsDataset ==
    [][(AtRest /\ notice' \in {"no_shp", "load_error"} /\ attempt_key'.set)
          => geo_df' = geo_df]_vars

C11_Witness ==
    /\ notice = "load_error"
    /\ parsed
    /\ geo_df.loaded
    /\ attempt_key # loaded_key
\* C12: a Process Data click that finds no filter value, no selected field or
\* an empty reach list issues no request and creates no directory and no log
\* (the empty list also warns and stops); requests are issued only inside a
\* run that passed the three checks.
C12_NoNetworkBeforeChecks ==
    /\ [][(AtRest /\ prerun' \in {"no_value", "no_fields", "no_reach_ids"})
            => (pc' = "idle" /\ replies' = << >> /\ disk' = disk)]_vars
    /\ [][replies' # replies /\ replies' # << >>
            => (/\ pc \in {"request", "retry"}
                /\ prerun = "processing"
                /\ reach_ids # << >>
                /\ out_dir \in made_dirs)]_vars

C12_Witness ==
    /\ prerun = "no_reach_ids"
    /\ geo_df.rows = DatasetA
    /\ made_dirs = {}
    /\ pc = "idle"

\* C13: the filter's list is no longer than the dataset, holds no null and no
\* empty identifier, and is, in row order, the decimal text of the reach ids
\* of rows whose filter column equals the value.
C13_FilterOutput ==
    answer.stage = "filtered" =>
        LET rows == probe.rows
            ids == answer.reach_ids
            matches(j) == ~rows[j][probe.col].null /\ rows[j][probe.col].v = probe.val
        IN  /\ Len(ids) <= Len(rows)
            /\ \A k \in 1..Len(ids) :
                  /\ ids[k] # << >>
                  /\ \A c \in 1..Len(ids[k]) : ids[k][c] \in Digits
            /\ \E f \in [1..Len(ids) -> 1..Len(rows)] :
                  /\ \A k \in 1..Len(ids) :
                        /\ matches(f[k])
                        /\ ~rows[f[k]].reach_id.null
                        /\ DigitsVal(ids[k], 0) = rows[f[k]].reach_id.v
                  /\ \A k, l \in 1..Len(ids) : k < l => f[k] < f[l]

C13_Witness ==
    /\ answer.stage = "filtered"
    /\ probe.col = "river_name"
    /\ Len(probe.rows) = 3
    /\ probe.rows[2] = Row(NullCell, Cell(probe.val))
    /\ answer.reach_ids = << <<"1", "2">>, <<"1">> >>

\* C14: the sanitized value is the allowed characters of the filter value, all
\* of them and in their order; the directory name is swot_, the sanitized
\* value, _output; and sanitizing the sanitized value gives it back.
C14_Sanitization ==
    /\ answer.stage \in {"once", "twice"} =>
          LET value == probe.value
              safe_val == answer.safe_val
              keep == { j \in 1..Len(value) : Allowed(value[j]) }
          IN  /\ Len(safe_val) = Cardinality(keep)
              /\ \A j \in keep : safe_val[Cardinality({ p \in keep : p <= j })] = value[j]
              /\ Len(answer.OUTPUT_DIR) = Len(safe_val) + 2
              /\ answer.OUTPUT_DIR[1] = "swot_"
              /\ answer.OUTPUT_DIR[Len(answer.OUTPUT_DIR)] = "_output"
              /\ \A k \in 1..Len(safe_val) :
                    answer.OUTPUT_DIR[k + 1] = safe_val[k] /\ Allowed(safe_val[k])
    /\ answer.stage = "twice" => answer.again = answer.safe_val

C14_Witness ==
    /\ answer.stage = "twice"
    /\ probe.value = <<"A", "/", "1">>
    /\ answer.safe_val = <<"A", "1">>
    /\ answer.OUTPUT_DIR = <<"swot_", "A", "1", "_output">>
\* C15: a load attempt that made a temp dir calls robust_rmtree on it, which
\* tries at most three times, stops at the first success and returns after
\* the third failure, whatever the load did, a failed blob write included.
C15_TempDirReleased ==
    temp_dir.made =>
        /\ temp_dir.cleanup
        /\ Len(temp_dir.calls) \in 1..RmtreeTries
        /\ \A k \in 1..(Len(temp_dir.calls) - 1) : ~temp_dir.calls[k]
        /\ temp_dir.calls[Len(temp_dir.calls)] \/ Len(temp_dir.calls) = RmtreeTries

\* C16: every processed reach appends one table or adds one to the error
\* counter, never both and never neither, so tables plus errors equals the
\* number of reaches done.
C16_OneOutcomePerReach ==
    /\ (InLoop /\ pc # "finally") => Len(results) + errors = i
    /\ pc = "finally" =>
          /\ Len(results) + errors = i + 1
          /\ outcome \in {"SUCCESS", "NOT_FOUND", "FAILED", "EMPTY"}
          /\ \/ (Len(results) = Len(mark.results) + 1 /\ errors = mark.errors)
             \/ (results = mark.results /\ errors = mark.errors + 1)
    /\ pc \in {"present", "finished"} =>
          (i = Len(reach_ids) /\ Len(results) + errors = Len(reach_ids))

C16_Witness ==
    /\ pc = "finished"
    /\ i = 2
    /\ Len(results) = 1
    /\ results[1].occ = 2
    /\ errors = 1

\* C17: the per-reach file is written only on the way to SUCCESS, from a
\* 200 reply with csv text, before the table joins the accumulator; a reach
\* that ends NOT_FOUND, FAILED or EMPTY leaves the files as they were.
C17_FileOnlyOnSuccess ==
    /\ [][reach_files' # reach_files
            => (/\ pc = "classify" /\ pc' = "written"
                /\ resp.status = 200 /\ resp.body.kind = "csv"
                /\ reach_files' = reach_files \cup {<<out_dir, rid>>}
                /\ results' = results)]_vars
    /\ [][(InLoop /\ results' # results)
            => (/\ pc = "written"
                /\ <<out_dir, rid>> \in reach_files
                /\ outcome' = "SUCCESS")]_vars
    /\ []((pc = "finally" /\ outcome # "SUCCESS") => reach_files = mark.files)
    /\ []((pc = "finally" /\ outcome = "SUCCESS") => <<out_dir, rid>> \in reach_files)

C17_Witness ==
    /\ pc = "finally"
    /\ i = 1
    /\ outcome = "EMPTY"
    /\ reach_files = {<<out_dir, reach_ids[1]>>}
    /\ Len(results) = 1

\* C18: every step leaves every log as it was or appends one line to it, and
\* it appends only the identifier of a reach whose final reply is a 400, to
\* the log of the run's directory; lines of an earlier session stay.
C18_LogAppendOnly ==
    [][\A d \in Dirs :
          \/ logs'[d] = logs[d]
          \/ /\ d = out_dir
             /\ pc = "classify"
             /\ resp.status = 400
             /\ logs'[d] = Append(logs[d], rid)]_vars

C18_Witness ==
    /\ pc = "finished"
    /\ i = 2
    /\ logs[out_dir] = <<OldLine, reach_ids[1]>>
    /\ Len(results) = 1

\* C19: the progress update for position i+1 is emitted only once reach i+1
\* is done, so the position shown never exceeds the number of reaches done.
C19_ProgressAfterDone ==
    /\ (InLoop /\ pc # "finally") => progress[1] <= i
    /\ pc = "finally" => progress[1] <= i + 1

\* C20: when the stored identity is set the stored dataset is set and is the
\* one read from the file set with that identity; a load that fails leaves
\* the stored identity as it was, so it differs from the failed set's identity
\* and the same set is attempted again.
C20_SessionConsistent ==
    /\ [](upload_key.set =>
            /\ geo_df.loaded
            /\ current_key(loaded_from) = upload_key
            /\ shp_files(loaded_from) # << >>
            /\ geo_df.rows = shp_files(loaded_from)[1].content.rows)
    /\ [](notice \in {"no_shp", "load_error"} => upload_key # attempt_key)
    /\ [][(AtRest /\ notice' \in {"no_shp", "load_error"}) => upload_key' = upload_key]_vars

C20_Witness ==
    /\ notice = "no_shp"
    /\ upload_key = current_key(loaded_from)
    /\ geo_df.rows = DatasetB
    /\ attempt_key.set
    /\ attempt_key # upload_key

====
